---- MODULE Spec2Model ----
(***************************************************************************)
(* A model of the Tetris reducer of RxJs-Tetris: the tetromino catalog and *)
(* rotation (tetromino.ts), the board geometry (board.ts) and the state    *)
(* transition function updateState folded over the action stream (main.ts).*)
(*                                                                         *)
(* Arrays are 0-based in the source and sequences are 1-based here: the    *)
(* board cell the source calls board[boardY][boardX] is                    *)
(* board[boardY + 1][boardX + 1]; x, y, posX and posY keep their 0-based   *)
(* source values.  The empty cell (null) is the string "null", which is no *)
(* catalog colour.                                                         *)
(***************************************************************************)
EXTENDS Integers, Sequences, FiniteSets, TLC

\* ---------------------------------------------------------------- bounds
\* The action streams of Streams below: how many pieces a stacking player
\* drops, how many times a steering player presses each of left and right,
\* how many ticks the timer delivers to an idle player, how many times a
\* player pushes towards one wall, and how many quarter turns and drops the
\* upright-stacking player makes.
MaxStack == 10
MaxShift == 3
MaxFall == 20
MaxPush == 5
MaxTurn == 5
\* clearRows is applied to boards with at most MaxFullRows full rows, and to
\* boards with at most MaxFullRows rows that are not full.
MaxFullRows == 2
\* The widest gap left in the bottom row of a board set up for one drop.
MaxGap == 5
\* rotate is applied to matrices of up to MaxDim rows and columns.
MaxDim == 3
\* canPlaceTetromino and mergeTetromino are applied to blocks whose matrix
\* starts up to MaxOut cells outside the board.
MaxOut == 2
\* The timer delivers at most MaxIdle ticks to a game nobody plays.
MaxIdle == 250

\* ------------------------------------------------------------- board.ts
GRID_WIDTH == 10
GRID_HEIGHT == 20

Null == "null"

\* ---------------------------------------------------------- tetromino.ts
deepCopy(matrix) ==
  [i \in 1..Len(matrix) |-> [j \in 1..Len(matrix[i]) |-> matrix[i][j]]]

keys == <<"I", "O", "T", "S", "Z", "J", "L">>

TETROMINOES ==
  [k \in {keys[i] : i \in 1..Len(keys)} |->
    CASE k = "I" -> [shape |-> << <<0, 0, 0, 0>>,
                                  <<1, 1, 1, 1>>,
                                  <<0, 0, 0, 0>>,
                                  <<0, 0, 0, 0>> >>, color |-> "cyan"]
      [] k = "O" -> [shape |-> << <<1, 1>>,
                                  <<1, 1>> >>, color |-> "yellow"]
      [] k = "T" -> [shape |-> << <<0, 1, 0>>,
                                  <<1, 1, 1>>,
                                  <<0, 0, 0>> >>, color |-> "purple"]
      [] k = "S" -> [shape |-> << <<0, 1, 1>>,
                                  <<1, 1, 0>>,
                                  <<0, 0, 0>> >>, color |-> "green"]
      [] k = "Z" -> [shape |-> << <<1, 1, 0>>,
                                  <<0, 1, 1>>,
                                  <<0, 0, 0>> >>, color |-> "red"]
      [] k = "J" -> [shape |-> << <<1, 0, 0>>,
                                  <<1, 1, 1>>,
                                  <<0, 0, 0>> >>, color |-> "blue"]
      [] k = "L" -> [shape |-> << <<0, 0, 1>>,
                                  <<1, 1, 1>>,
                                  <<0, 0, 0>> >>, color |-> "orange"]]

\* The value randomTetromino() returns when
\* keys[Math.floor(Math.random() * keys.length)] is randKey.
randomTetromino(randKey) ==
  [shape |-> deepCopy(TETROMINOES[randKey].shape),
   color |-> TETROMINOES[randKey].color]

\* The transpose in place of the quarter turn.
rotate_Transpose(matrix) ==
  LET n == Len(matrix)
      m == Len(matrix[1])
  IN  [j \in 1..m |-> [c \in 1..n |-> matrix[c][j]]]

\* rotate turning the wrong way: rotated[m - 1 - j][i] = matrix[i][j].
rotate_CounterClockwise(matrix) ==
  LET n == Len(matrix)
      m == Len(matrix[1])
  IN  [j \in 1..m |-> [c \in 1..n |-> matrix[c][m - j + 1]]]

\* rotated[j][n - 1 - i] = matrix[i][j], an m x n matrix from an n x m one.
rotate(matrix) ==
  LET n == Len(matrix)
      m == Len(matrix[1])
  IN  [j \in 1..m |-> [c \in 1..n |-> matrix[n - c + 1][j]]]

\* ------------------------------------------------------------- board.ts
createEmptyBoard ==
  [r \in 1..GRID_HEIGHT |-> [c \in 1..GRID_WIDTH |-> Null]]

\* canPlaceTetromino testing the empty cells of the matrix as well.
canPlaceTetromino_AllCells(board, tetromino, posX, posY) ==
  LET shape == tetromino.shape
  IN  \A row \in 1..Len(shape) : \A col \in 1..Len(shape[row]) :
        LET boardX == posX + (col - 1)
            boardY == posY + (row - 1)
        IN  IF boardX < 0 \/ boardX >= GRID_WIDTH
               \/ boardY < 0 \/ boardY >= GRID_HEIGHT
            THEN FALSE
            ELSE shape[row][col] # 0 => board[boardY + 1][boardX + 1] = Null

canPlaceTetromino(board, tetromino, posX, posY) ==
  LET shape == tetromino.shape
  IN  \A row \in 1..Len(shape) : \A col \in 1..Len(shape[row]) :
        shape[row][col] # 0 =>
          LET boardX == posX + (col - 1)
              boardY == posY + (row - 1)
          IN  IF boardX < 0 \/ boardX >= GRID_WIDTH
                 \/ boardY < 0 \/ boardY >= GRID_HEIGHT
              THEN FALSE
              ELSE board[boardY + 1][boardX + 1] = Null

\* mergeTetromino writing the color for every cell of the matrix.
mergeTetromino_WholeMatrix(board, block) ==
  LET shape == block.tetromino.shape
      Covered(boardY, boardX) ==
        LET row == boardY - block.y + 1
            col == boardX - block.x + 1
        IN  /\ row \in 1..Len(shape)
            /\ col \in 1..Len(shape[row])
  IN  [r \in 1..Len(board) |-> [c \in 1..Len(board[r]) |->
        IF Covered(r - 1, c - 1) THEN block.tetromino.color ELSE board[r][c]]]

mergeTetromino(board, block) ==
  LET shape == block.tetromino.shape
      \* (boardY, boardX) is written by the loops: it is the image of an
      \* occupied shape cell (row, col) and passes the bounds test.
      Covered(boardY, boardX) ==
        LET row == boardY - block.y + 1
            col == boardX - block.x + 1
        IN  /\ row \in 1..Len(shape)
            /\ col \in 1..Len(shape[row])
            /\ shape[row][col] # 0
            /\ boardX >= 0 /\ boardX < GRID_WIDTH
            /\ boardY >= 0 /\ boardY < GRID_HEIGHT
  IN  [r \in 1..Len(board) |-> [c \in 1..Len(board[r]) |->
        IF Covered(r - 1, c - 1) THEN block.tetromino.color ELSE board[r][c]]]

\* -------------------------------------------------------------- main.ts
ActionTypes == {"tick", "left", "right", "down", "rotate", "drop"}

\* spawnNewBlock rounding the centre up (Math.ceil for Math.floor).
spawnNewBlock_Ceil(board, tetromino) ==
  LET tetrominoWidth == Len(tetromino.shape[1])
      x == (GRID_WIDTH - tetrominoWidth + 1) \div 2
  IN  [tetromino |-> tetromino, x |-> x, y |-> 0]

spawnNewBlock(board, tetromino) ==
  LET tetrominoWidth == Len(tetromino.shape[1])
      x == (GRID_WIDTH - tetrominoWidth) \div 2
  IN  [tetromino |-> tetromino, x |-> x, y |-> 0]

HasNull(row) == \E c \in 1..Len(row) : row[c] = Null

\* clearRows that does not prepend the empty rows.
clearRows_NoRefill(board) ==
  LET remainingRows == SelectSeq(board, HasNull)
      rowsCleared == GRID_HEIGHT - Len(remainingRows)
  IN  [board |-> remainingRows, rowsCleared |-> rowsCleared]

\* clearRows that counts the full rows and leaves them on the board.
clearRows_CountOnly(board) ==
  LET remainingRows == SelectSeq(board, HasNull)
      rowsCleared == GRID_HEIGHT - Len(remainingRows)
  IN  [board |-> board, rowsCleared |-> rowsCleared]

\* clearRows that puts the empty rows at the bottom.
clearRows_Bottom(board) ==
  LET remainingRows == SelectSeq(board, HasNull)
      rowsCleared == GRID_HEIGHT - Len(remainingRows)
      newRows == [i \in 1..rowsCleared |-> [c \in 1..GRID_WIDTH |-> Null]]
  IN  [board |-> remainingRows \o newRows, rowsCleared |-> rowsCleared]

clearRows(board) ==
  LET remainingRows == SelectSeq(board, HasNull)
      rowsCleared == GRID_HEIGHT - Len(remainingRows)
      newRows == [i \in 1..rowsCleared |-> [c \in 1..GRID_WIDTH |-> Null]]
  IN  [board |-> newRows \o remainingRows, rowsCleared |-> rowsCleared]

\* The while loop of the "drop" case: the last dropY from which dropY + 1 is
\* not placeable.
RECURSIVE dropLoop(_, _, _)
dropLoop(board, currentBlock, dropY) ==
  IF canPlaceTetromino(board, currentBlock.tetromino, currentBlock.x, dropY + 1)
  THEN dropLoop(board, currentBlock, dropY + 1)
  ELSE dropY

\* The lock sequence without the score update.
lockBlock_NoScore(state, block, drawn) ==
  LET newBoard == mergeTetromino(state.board, block)
      cleared == clearRows(newBoard)
      newBlock == spawnNewBlock(cleared.board, state.nextTetromino)
  IN  [board |-> cleared.board,
       currentBlock |-> newBlock,
       nextTetromino |-> drawn,
       gameOver |-> ~canPlaceTetromino(cleared.board, newBlock.tetromino,
                                       newBlock.x, newBlock.y),
       score |-> state.score]

\* The lock sequence without the test of the spawned block.
lockBlock_NeverOver(state, block, drawn) ==
  LET newBoard == mergeTetromino(state.board, block)
      cleared == clearRows(newBoard)
      scoreIncrement == cleared.rowsCleared * 100
      newBlock == spawnNewBlock(cleared.board, state.nextTetromino)
  IN  [board |-> cleared.board,
       currentBlock |-> newBlock,
       nextTetromino |-> drawn,
       gameOver |-> FALSE,
       score |-> state.score + scoreIncrement]

\* The lock sequence without the row clearing.
lockBlock_NoClear(state, block, drawn) ==
  LET newBoard == mergeTetromino(state.board, block)
      newBlock == spawnNewBlock(newBoard, state.nextTetromino)
  IN  [board |-> newBoard,
       currentBlock |-> newBlock,
       nextTetromino |-> drawn,
       gameOver |-> ~canPlaceTetromino(newBoard, newBlock.tetromino,
                                       newBlock.x, newBlock.y),
       score |-> state.score]

\* The lock sequence shared by the "tick"/"down" and "drop" cases: merge,
\* clear, score, spawn from nextTetromino, draw the preview, test the spawn.
lockBlock(state, block, drawn) ==
  LET newBoard == mergeTetromino(state.board, block)
      cleared == clearRows(newBoard)
      scoreIncrement == cleared.rowsCleared * 100
      newBlock == spawnNewBlock(cleared.board, state.nextTetromino)
  IN  [board |-> cleared.board,
       currentBlock |-> newBlock,
       nextTetromino |-> drawn,
       gameOver |-> ~canPlaceTetromino(cleared.board, newBlock.tetromino,
                                       newBlock.x, newBlock.y),
       score |-> state.score + scoreIncrement]

\* "tick"/"down" locking one row early: the fall is tested two rows ahead.
moveDown_EarlyLock(state, drawn) ==
  LET currentBlock == state.currentBlock
  IN  IF canPlaceTetromino(state.board, currentBlock.tetromino,
                           currentBlock.x, currentBlock.y + 2)
      THEN [state EXCEPT !.currentBlock.y = currentBlock.y + 1]
      ELSE lockBlock(state, currentBlock, drawn)

\* "tick"/"down" that never locks: a piece that cannot fall stays put.
moveDown_NoLock(state, drawn) ==
  LET currentBlock == state.currentBlock
  IN  IF canPlaceTetromino(state.board, currentBlock.tetromino,
                           currentBlock.x, currentBlock.y + 1)
      THEN [state EXCEPT !.currentBlock.y = currentBlock.y + 1]
      ELSE state

\* case "tick": case "down":
moveDown(state, drawn) ==
  LET currentBlock == state.currentBlock
  IN  IF canPlaceTetromino(state.board, currentBlock.tetromino,
                           currentBlock.x, currentBlock.y + 1)
      THEN [state EXCEPT !.currentBlock.y = currentBlock.y + 1]
      ELSE lockBlock(state, currentBlock, drawn)

\* "left" committed without the placement test.
moveLeft_Unchecked(state) ==
  [state EXCEPT !.currentBlock.x = state.currentBlock.x - 1]

\* case "left":
moveLeft(state) ==
  LET currentBlock == state.currentBlock
  IN  IF canPlaceTetromino(state.board, currentBlock.tetromino,
                           currentBlock.x - 1, currentBlock.y)
      THEN [state EXCEPT !.currentBlock.x = currentBlock.x - 1]
      ELSE state

\* "right" moving the way "left" does.
moveRight_WrongWay(state) ==
  LET currentBlock == state.currentBlock
  IN  IF canPlaceTetromino(state.board, currentBlock.tetromino,
                           currentBlock.x + 1, currentBlock.y)
      THEN [state EXCEPT !.currentBlock.x = currentBlock.x - 1]
      ELSE state

\* case "right":
moveRight(state) ==
  LET currentBlock == state.currentBlock
  IN  IF canPlaceTetromino(state.board, currentBlock.tetromino,
                           currentBlock.x + 1, currentBlock.y)
      THEN [state EXCEPT !.currentBlock.x = currentBlock.x + 1]
      ELSE state

\* "rotate" committed without the placement test.
rotateBlock_Unchecked(state) ==
  [state EXCEPT !.currentBlock.tetromino.shape =
                  rotate(state.currentBlock.tetromino.shape)]

\* case "rotate":
rotateBlock(state) ==
  LET currentBlock == state.currentBlock
      rotatedShape == rotate(currentBlock.tetromino.shape)
      rotatedTetromino == [currentBlock.tetromino EXCEPT !.shape = rotatedShape]
  IN  IF canPlaceTetromino(state.board, rotatedTetromino,
                           currentBlock.x, currentBlock.y)
      THEN [state EXCEPT !.currentBlock.tetromino = rotatedTetromino]
      ELSE state

\* "drop" resting the matrix, not its occupied cells, on the floor.
hardDrop_MatrixHeight(state, drawn) ==
  LET currentBlock == state.currentBlock
      dropY == GRID_HEIGHT - Len(currentBlock.tetromino.shape)
      droppedBlock == [currentBlock EXCEPT !.y = dropY]
  IN  lockBlock(state, droppedBlock, drawn)

\* "drop" locking the piece where it is.
hardDrop_NoFall(state, drawn) ==
  lockBlock(state, state.currentBlock, drawn)

\* case "drop":
hardDrop(state, drawn) ==
  LET currentBlock == state.currentBlock
      dropY == dropLoop(state.board, currentBlock, currentBlock.y)
      droppedBlock == [currentBlock EXCEPT !.y = dropY]
  IN  lockBlock(state, droppedBlock, drawn)

\* updateState without the gameOver guard.
updateState_NoGuard(state, action, drawn) ==
  CASE action \in {"tick", "down"} -> moveDown(state, drawn)
    [] action = "left" -> moveLeft(state)
    [] action = "right" -> moveRight(state)
    [] action = "rotate" -> rotateBlock(state)
    [] action = "drop" -> hardDrop(state, drawn)
    [] OTHER -> state

\* updateState(state, action); drawn is the value the call of
\* randomTetromino() returns when the action locks the piece.
updateState(state, action, drawn) ==
  IF state.gameOver THEN state
  ELSE CASE action \in {"tick", "down"} -> moveDown(state, drawn)
         [] action = "left" -> moveLeft(state)
         [] action = "right" -> moveRight(state)
         [] action = "rotate" -> rotateBlock(state)
         [] action = "drop" -> hardDrop(state, drawn)
         [] OTHER -> state

\* ------------------------------------------------------------ the system
\* A stream is what the environment feeds one run of main(): draws, the
\* catalog keys Math.random selects, and budget, how many actions of each
\* type the merged action$ delivers (timer ticks and key presses).
Budget(t, d, l, r, ro, dr) ==
  [a \in ActionTypes |->
     CASE a = "tick" -> t [] a = "down" -> d [] a = "left" -> l
       [] a = "right" -> r [] a = "rotate" -> ro [] a = "drop" -> dr]

AllKeys == {keys[i] : i \in 1..Len(keys)}

Streams ==
  { \* a player who only drops O pieces, with a late tick or soft drop
    [draws |-> {"O"}, budget |-> Budget(1, 1, 0, 0, 0, MaxStack)],
    \* a player who stands I pieces upright on one another
    [draws |-> {"I"}, budget |-> Budget(1, 0, 0, 0, MaxTurn, MaxTurn)],
    \* a player who steers I and O pieces sideways and drops them
    [draws |-> {"I", "O"}, budget |-> Budget(0, 0, MaxShift, MaxShift, 0, 3)],
    \* an idle player: the timer alone, one turn and one soft drop
    [draws |-> AllKeys, budget |-> Budget(MaxFall, 1, 0, 0, 1, 0)],
    \* a player who pushes the piece against the left or the right wall
    [draws |-> AllKeys, budget |-> Budget(0, 0, MaxPush, 1, 2, 0)],
    [draws |-> AllKeys, budget |-> Budget(0, 0, 1, MaxPush, 2, 0)],
    \* a player who drops the first piece at once
    [draws |-> AllKeys, budget |-> Budget(0, 0, 0, 0, 0, 1)] }

\* state is the accumulator of scan and prev the accumulator before the last
\* action, lastAction that action's type; subscribed is TRUE until takeWhile
\* completes the stream; draws and budget are what is left of the stream.
\* rendered is what the subscriber has seen: the state it rendered last
\* (<<>> before the first) and how many gameOver states it was handed; late
\* counts the timer ticks and key presses that came after the stream completed.
\* arg, ret and pc hold the argument, the result and the progress of one call
\* of a pure function checked on its own (SpecClearRows).
VARIABLES state, prev, lastAction, subscribed, draws, budget, rendered, late,
          arg, ret, pc

vars == <<state, prev, lastAction, subscribed, draws, budget, rendered, late,
          arg, ret, pc>>

game == <<state, prev, lastAction, subscribed, draws, budget, rendered, late>>

initialState(first, second) ==
  [board |-> createEmptyBoard,
   currentBlock |-> spawnNewBlock(createEmptyBoard, first),
   nextTetromino |-> second,
   gameOver |-> FALSE,
   score |-> 0]

Init ==
  /\ \E stream \in Streams :
       /\ draws = stream.draws
       /\ budget = stream.budget
  /\ \E first \in draws, second \in draws :
       state = initialState(randomTetromino(first), randomTetromino(second))
  /\ prev = state
  /\ lastAction = "none"
  /\ subscribed = TRUE
  /\ rendered = [last |-> <<>>, gameOvers |-> 0]
  /\ late = 0
  /\ arg = <<>> /\ ret = <<>> /\ pc = "game"

\* The subscriber's callback: render(state), renderPreview, and the Game
\* Over banner made visible for a gameOver state.
subscriber(seen, s) ==
  [last |-> s,
   gameOvers |-> IF s.gameOver THEN seen.gameOvers + 1 ELSE seen.gameOvers]

\* The pipeline without takeWhile: every action is folded and emitted.
Emit_NoTakeWhile(action) ==
  /\ pc = "game"
  /\ budget[action] > 0
  /\ \E randKey \in draws :
       state' = updateState(state, action, randomTetromino(randKey))
  /\ prev' = state
  /\ lastAction' = action
  /\ subscribed' = ~state'.gameOver
  /\ rendered' = subscriber(rendered, state')
  /\ budget' = [budget EXCEPT ![action] = @ - 1]
  /\ UNCHANGED <<draws, late, arg, ret, pc>>

\* One action of action$ through scan and takeWhile(s => !s.gameOver, true):
\* the new accumulator is emitted, and a gameOver state completes the stream.
Emit(action) ==
  /\ pc = "game"
  /\ subscribed
  /\ budget[action] > 0
  /\ \E randKey \in draws :
       state' = updateState(state, action, randomTetromino(randKey))
  /\ prev' = state
  /\ lastAction' = action
  /\ subscribed' = ~state'.gameOver
  /\ rendered' = subscriber(rendered, state')
  /\ budget' = [budget EXCEPT ![action] = @ - 1]
  /\ UNCHANGED <<draws, late, arg, ret, pc>>

Tick == Emit("tick")
Left == Emit("left")
Right == Emit("right")
Down == Emit("down")
Rotate == Emit("rotate")
Drop == Emit("drop")

\* A timer tick or a key press after takeWhile completed the stream: the
\* source is unsubscribed, so it reaches neither scan nor the subscriber.
Late ==
  /\ pc = "game"
  /\ ~subscribed
  /\ \E action \in ActionTypes :
       /\ budget[action] > 0
       /\ budget' = [budget EXCEPT ![action] = @ - 1]
  /\ late' = late + 1
  /\ UNCHANGED <<state, prev, lastAction, subscribed, draws, rendered,
                 arg, ret, pc>>

Next == Tick \/ Left \/ Right \/ Down \/ Rotate \/ Drop \/ Late

Spec == Init /\ [][Next]_vars

\* ------------------------------------------------- clearRows on its own
\* The boards clearRows is applied to: row r is either full or holds
\* r mod 10 landed cells, so that rows can be told apart.
FullRow == [c \in 1..GRID_WIDTH |-> "cyan"]

MarkedRow(r) == [c \in 1..GRID_WIDTH |-> IF c <= r % GRID_WIDTH THEN "red" ELSE Null]

RECURSIVE RowSets(_)
RowSets(n) ==
  IF n = 0 THEN {{}}
  ELSE LET smaller == RowSets(n - 1)
       IN  smaller \cup { F \cup {r} : F \in smaller, r \in 1..GRID_HEIGHT }

ClearBoards ==
  { [r \in 1..GRID_HEIGHT |-> IF r \in full THEN FullRow ELSE MarkedRow(r)] :
      full \in RowSets(MaxFullRows)
                \cup { (1..GRID_HEIGHT) \ F : F \in RowSets(MaxFullRows) } }

InitClearRows ==
  /\ state = initialState(randomTetromino("I"), randomTetromino("O"))
  /\ prev = state
  /\ lastAction = "none"
  /\ subscribed = TRUE
  /\ draws = {}
  /\ budget = Budget(0, 0, 0, 0, 0, 0)
  /\ rendered = [last |-> <<>>, gameOvers |-> 0]
  /\ late = 0
  /\ arg \in ClearBoards
  /\ ret = <<>>
  /\ pc = "call"

CallClearRows ==
  /\ pc = "call"
  /\ ret' = clearRows(arg)
  /\ pc' = "done"
  /\ UNCHANGED <<game, arg>>

SpecClearRows == InitClearRows /\ [][CallClearRows]_vars

\* ------------------------------------------- updateState on a set board
\* No game is running: the stream variables stay as they start.
NoGame ==
  /\ state = initialState(randomTetromino("I"), randomTetromino("O"))
  /\ prev = state
  /\ lastAction = "none"
  /\ subscribed = TRUE
  /\ draws = {}
  /\ budget = Budget(0, 0, 0, 0, 0, 0)
  /\ rendered = [last |-> <<>>, gameOvers |-> 0]
  /\ late = 0

\* The boards whose bottom row is filled but for a gap of up to MaxGap
\* adjacent cells and whose other rows are empty.
GapBoards ==
  { [r \in 1..GRID_HEIGHT |-> [c \in 1..GRID_WIDTH |->
       IF r = GRID_HEIGHT /\ (c - 1) \notin g..(g + w - 1) THEN "red" ELSE Null]] :
      w \in 1..MaxGap, g \in 0..(GRID_WIDTH - 1) }

\* A state with the I piece, as the catalog has it, at the top of a board.
GapStates ==
  { [board |-> b,
     currentBlock |-> [tetromino |-> randomTetromino("I"), x |-> x, y |-> 0],
     nextTetromino |-> randomTetromino(n),
     gameOver |-> FALSE,
     score |-> s] :
      b \in GapBoards, x \in 0..(GRID_WIDTH - 4), n \in AllKeys, s \in {0, 100} }

InitDropOnGap ==
  /\ NoGame
  /\ arg \in GapStates
  /\ ret = <<>>
  /\ pc = "call"

CallDrop ==
  /\ pc = "call"
  /\ \E randKey \in AllKeys :
       ret' = updateState(arg, "drop", randomTetromino(randKey))
  /\ pc' = "done"
  /\ UNCHANGED <<game, arg>>

SpecDropOnGap == InitDropOnGap /\ [][CallDrop]_vars

\* ---------------------------------------------------- rotate on its own
\* The matrices rotate is applied to: the catalog shapes and every 0/1 matrix
\* of 1..MaxDim rows and 1..MaxDim columns.
Matrices ==
  { TETROMINOES[k].shape : k \in AllKeys }
    \cup UNION { [1..n -> [1..m -> {0, 1}]] : n \in 1..MaxDim, m \in 1..MaxDim }

InitRotate ==
  /\ NoGame
  /\ arg \in Matrices
  /\ ret = [matrix |-> arg, turns |-> 0]
  /\ pc = "call"

\* rotate applied to the result of the call before, four times at most.
CallRotate ==
  /\ pc = "call"
  /\ ret.turns < 4
  /\ ret' = [matrix |-> rotate(ret.matrix), turns |-> ret.turns + 1]
  /\ UNCHANGED <<game, arg, pc>>

SpecRotate == InitRotate /\ [][CallRotate]_vars

\* -------------------------- canPlaceTetromino and mergeTetromino on their own
\* The boards the two functions are applied to: the empty board, a board
\* whose lower half is filled, and a board filled like a chessboard.
TestBoards ==
  { createEmptyBoard,
    [r \in 1..GRID_HEIGHT |-> [c \in 1..GRID_WIDTH |->
       IF r > GRID_HEIGHT \div 2 THEN "red" ELSE Null]],
    [r \in 1..GRID_HEIGHT |-> [c \in 1..GRID_WIDTH |->
       IF (r + c) % 2 = 0 THEN "blue" ELSE Null]] }

\* The catalog pieces in their four orientations.
TurnedPieces ==
  UNION { { t,
            [t EXCEPT !.shape = rotate(@)],
            [t EXCEPT !.shape = rotate(rotate(@))],
            [t EXCEPT !.shape = rotate(rotate(rotate(@)))] } :
          t \in { randomTetromino(k) : k \in AllKeys } }

\* The blocks: a piece whose matrix has its top-left corner up to MaxOut cells
\* outside the board on any side.
TestBlocks ==
  { [tetromino |-> t, x |-> x, y |-> y] :
      t \in TurnedPieces,
      x \in (0 - MaxOut)..(GRID_WIDTH - 1 + MaxOut),
      y \in (0 - MaxOut)..(GRID_HEIGHT - 1 + MaxOut) }

InitGeometry ==
  /\ NoGame
  /\ arg \in [board : TestBoards, block : TestBlocks]
  /\ ret = <<>>
  /\ pc = "call"

CallCanPlace ==
  /\ pc = "call"
  /\ ret' = [fn |-> "canPlaceTetromino",
             value |-> canPlaceTetromino(arg.board, arg.block.tetromino,
                                         arg.block.x, arg.block.y)]
  /\ pc' = "done"
  /\ UNCHANGED <<game, arg>>

\* The argument board once mergeTetromino has returned: the rows are copied
\* into newBoard first, and every write of the loops goes to newBoard.
mergedFrom(board, block) == board

CallMerge ==
  /\ pc = "call"
  /\ ret' = [fn |-> "mergeTetromino",
             value |-> mergeTetromino(arg.board, arg.block),
             board |-> mergedFrom(arg.board, arg.block)]
  /\ pc' = "done"
  /\ UNCHANGED <<game, arg>>

NextGeometry == CallCanPlace \/ CallMerge

SpecGeometry == InitGeometry /\ [][NextGeometry]_vars

\* ------------------------------------------------- the game left alone
\* No key is pressed: action$ carries the ticks of interval(TICK_RATE_MS)
\* alone, which keep coming for as long as the stream is subscribed.  The
\* first piece is any of the catalog; the preview and every later draw are
\* of the one kind in draws.
InitIdle ==
  /\ \E randKey \in AllKeys : draws = {randKey}
  /\ budget = Budget(MaxIdle, 0, 0, 0, 0, 0)
  /\ \E first \in AllKeys, second \in draws :
       state = initialState(randomTetromino(first), randomTetromino(second))
  /\ prev = state
  /\ lastAction = "none"
  /\ subscribed = TRUE
  /\ rendered = [last |-> <<>>, gameOvers |-> 0]
  /\ late = 0
  /\ arg = <<>> /\ ret = <<>> /\ pc = "game"

SpecIdle == InitIdle /\ [][Tick]_vars /\ WF_vars(Tick)

\* ------------------------------------------------------------ properties
\* What the claims speak of, stated on cells rather than through the code's
\* loops.  The claims about one transition are stated of the transition the
\* stream took last: from prev, by lastAction, to state.

\* The board cells <<column, row>> a block occupies.
OccupiedCells(block) ==
  LET shape == block.tetromino.shape
      occupied == { rc \in (1..Len(shape)) \X (1..Len(shape[1])) :
                      shape[rc[1]][rc[2]] # 0 }
  IN  { <<block.x + (rc[2] - 1), block.y + (rc[1] - 1)>> : rc \in occupied }

\* Every occupied cell lies inside [0,10) x [0,20) and over an empty cell.
Fits(board, block) ==
  \A cell \in OccupiedCells(block) :
    /\ cell[1] \in 0..9
    /\ cell[2] \in 0..19
    /\ board[cell[2] + 1][cell[1] + 1] = Null

Shifted(block, dx, dy) == [block EXCEPT !.x = @ + dx, !.y = @ + dy]

\* The quarter turn clockwise: cell (i, j) of an n-row matrix goes to
\* (j, n - 1 - i), 0-based.
Clockwise(shape) ==
  [j \in 1..Len(shape[1]) |->
     [c \in 1..Len(shape) |-> shape[Len(shape) + 1 - c][j]]]

Turned(block) == [block EXCEPT !.tetromino.shape = Clockwise(@)]

\* Where left, right and rotate mean to put the block.
Target(block, action) ==
  CASE action = "left" -> Shifted(block, -1, 0)
    [] action = "right" -> Shifted(block, 1, 0)
    [] action = "rotate" -> Turned(block)

\* The row a hard drop rests on: the first y2 >= y from which y2 + 1 does
\* not fit.
RestingY(board, block) ==
  CHOOSE y2 \in block.y..20 :
    /\ ~Fits(board, [block EXCEPT !.y = y2 + 1])
    /\ \A y3 \in block.y..(y2 - 1) : Fits(board, [block EXCEPT !.y = y3 + 1])

\* The action locks the current piece of s.
Locks(s, action) ==
  /\ ~s.gameOver
  /\ \/ action = "drop"
     \/ /\ action \in {"tick", "down"}
        /\ ~Fits(s.board, Shifted(s.currentBlock, 0, 1))

\* The piece as the action locks it.
Locked(s, action) ==
  IF action = "drop"
  THEN [s.currentBlock EXCEPT !.y = RestingY(s.board, s.currentBlock)]
  ELSE s.currentBlock

\* The rows left without an empty cell once the block is locked.
FullRowsWith(board, block) ==
  LET cells == OccupiedCells(block)
  IN  { r \in 0..19 : \A c \in 0..9 :
          board[r + 1][c + 1] # Null \/ <<c, r>> \in cells }

Catalog == { randomTetromino(k) : k \in AllKeys }

\* The last transition was a lock.
LastLocked == lastAction # "none" /\ Locks(prev, lastAction)

\* C1: GameOver is absorbing: in a state with gameOver set, updateState
\* returns its input state, equal in every field, for each of the six
\* actions; so gameOver never goes back to false.
C1_GameOverAbsorbing ==
  /\ state.gameOver =>
       \A action \in ActionTypes : \A drawn \in Catalog :
         updateState(state, action, drawn) = state
  /\ prev.gameOver => state = prev

C1_Witness ==
  /\ state.gameOver
  /\ lastAction = "drop"
  /\ ~prev.gameOver
  /\ updateState(state, "tick", randomTetromino("I")) = state

\* C2: while gameOver is false, every occupied cell of currentBlock's shape,
\* mapped through (x, y), lies inside the board [0,10) x [0,20) and over an
\* empty board cell.
C2_ActiveBlockFits ==
  ~state.gameOver => Fits(state.board, state.currentBlock)

\* A committed sideways move next to landed cells.
C2_Witness ==
  /\ ~state.gameOver
  /\ lastAction = "left"
  /\ state.currentBlock.x = prev.currentBlock.x - 1
  /\ state.board # createEmptyBoard
  /\ Fits(state.board, state.currentBlock)

\* C3: the board has exactly 20 rows of exactly 10 cells in every reachable
\* state: no action, a lock that clears rows included, changes that.
C3_BoardDimensions ==
  /\ Len(state.board) = 20
  /\ \A r \in 1..Len(state.board) : Len(state.board[r]) = 10

\* The state after a lock that cleared a row.
C3_Witness ==
  /\ lastAction = "drop"
  /\ FullRowsWith(prev.board, Locked(prev, "drop")) # {}
  /\ Len(state.board) = 20

C5_ClearRows ==
  pc = "done" =>
    LET full == { r \in 1..20 : \A c \in 1..10 : arg[r][c] # Null }
        kept == (1..20) \ full
        n == Cardinality(full)
        Kth(j) == CHOOSE r \in kept : Cardinality({ q \in kept : q <= r }) = j
    IN  /\ Len(ret.board) = 20
        /\ ret.rowsCleared = n
        /\ \A i \in 1..n :
             /\ Len(ret.board[i]) = 10
             /\ \A c \in 1..10 : ret.board[i][c] = Null
        /\ \A j \in 1..(20 - n) : ret.board[n + j] = arg[Kth(j)]

\* Two full rows, apart from one another, are removed.
C5_Witness ==
  /\ pc = "done"
  /\ ret.rowsCleared = 2
  /\ arg[20] = FullRow /\ arg[18] = FullRow
  /\ ret.board[20] = arg[19]

\* C6: when tick, down or drop locks the piece, the new currentBlock is the
\* tetromino that was nextTetromino (same shape and color, unrotated) at
\* y = 0 and x = floor((10 - pieceWidth) / 2), and nextTetromino is a freshly
\* drawn catalog piece.
C6_SpawnFromPreview ==
  LastLocked =>
    /\ state.currentBlock =
         [tetromino |-> prev.nextTetromino,
          x |-> (10 - Len(prev.nextTetromino.shape[1])) \div 2,
          y |-> 0]
    /\ \E k \in AllKeys : state.currentBlock.tetromino = TETROMINOES[k]
    /\ \E k \in AllKeys : state.nextTetromino = TETROMINOES[k]

\* A tick locks a piece three cells wide and the game goes on.
C6_Witness ==
  /\ LastLocked
  /\ lastAction = "tick"
  /\ ~state.gameOver
  /\ Len(state.currentBlock.tetromino.shape[1]) = 3
  /\ state.currentBlock.tetromino = prev.nextTetromino

\* C7: after a lock gameOver is set exactly when the spawned block cannot be
\* placed on the post-clear board, and the state then still carries the
\* merged-and-cleared board, the updated score and the spawned block;
\* gameOver never becomes true on a transition that is not a lock.
C7_GameOverOnLock ==
  IF LastLocked
  THEN /\ state.gameOver <=> ~Fits(state.board, state.currentBlock)
       /\ state.board =
            clearRows(mergeTetromino(prev.board, Locked(prev, lastAction))).board
       /\ state.score = prev.score
            + 100 * Cardinality(FullRowsWith(prev.board, Locked(prev, lastAction)))
       /\ state.currentBlock.tetromino = prev.nextTetromino
  ELSE state.gameOver => prev.gameOver

\* A tick locks the piece under the spawn position and the game is over.
C7_Witness ==
  /\ LastLocked
  /\ lastAction = "tick"
  /\ state.gameOver
  /\ ~Fits(state.board, state.currentBlock)
  /\ state.board # prev.board

\* C8: left, right and rotate towards an invalid placement (x - 1, x + 1, the
\* rotated shape at the same x, y) return the input state, equal in every
\* field.
C8_RejectedNoOp ==
  ( /\ lastAction \in {"left", "right", "rotate"}
    /\ ~Fits(prev.board, Target(prev.currentBlock, lastAction)) )
  => state = prev

\* A left against the wall or against landed cells.
C8_Witness ==
  /\ lastAction = "left"
  /\ ~Fits(prev.board, Target(prev.currentBlock, "left"))
  /\ state = prev
  /\ ~state.gameOver

\* C9: an accepted left/right changes only currentBlock.x, by exactly 1, and
\* a tick/down that can move to (x, y + 1) changes only currentBlock.y, by
\* exactly 1.
C9_AcceptedMoveFrame ==
  /\ ( lastAction = "left" /\ Fits(prev.board, Shifted(prev.currentBlock, -1, 0)) )
       => state = [prev EXCEPT !.currentBlock.x = @ - 1]
  /\ ( lastAction = "right" /\ Fits(prev.board, Shifted(prev.currentBlock, 1, 0)) )
       => state = [prev EXCEPT !.currentBlock.x = @ + 1]
  /\ ( lastAction \in {"tick", "down"}
         /\ Fits(prev.board, Shifted(prev.currentBlock, 0, 1)) )
       => state = [prev EXCEPT !.currentBlock.y = @ + 1]

\* A right beside landed cells.
C9_Witness ==
  /\ lastAction = "right"
  /\ state.board # createEmptyBoard
  /\ state.currentBlock.x = prev.currentBlock.x + 1
  /\ [state EXCEPT !.currentBlock.x = @ - 1] = prev

\* R is M turned a quarter clockwise: R[j][n - 1 - i] = M[i][j], 0-based.
IsClockwise(M, R) ==
  /\ Len(R) = Len(M[1])
  /\ \A j \in 1..Len(R) : Len(R[j]) = Len(M)
  /\ \A i \in 1..Len(M) : \A j \in 1..Len(M[i]) : R[j][Len(M) + 1 - i] = M[i][j]

\* C10: rotate tests the shape turned 90 degrees clockwise at the current
\* (x, y) only: if it fits, the shape is replaced by it and nothing else
\* changes; otherwise the state is unchanged.  x and y never change.
C10_RotateInPlace ==
  lastAction = "rotate" =>
    /\ state.currentBlock.x = prev.currentBlock.x
    /\ state.currentBlock.y = prev.currentBlock.y
    /\ IF Fits(prev.board, Turned(prev.currentBlock))
       THEN /\ IsClockwise(prev.currentBlock.tetromino.shape,
                           state.currentBlock.tetromino.shape)
            /\ [state EXCEPT !.currentBlock.tetromino.shape =
                               prev.currentBlock.tetromino.shape] = prev
       ELSE state = prev

\* An accepted turn of a piece that is not square-symmetric.
C10_Witness ==
  /\ lastAction = "rotate"
  /\ state.currentBlock.tetromino.shape # prev.currentBlock.tetromino.shape
  /\ IsClockwise(prev.currentBlock.tetromino.shape,
                 state.currentBlock.tetromino.shape)
  /\ state.currentBlock.x = prev.currentBlock.x

\* The stream so far is timer ticks alone, TicksSoFar of them: the idle
\* player's stream with its turn and its soft drop unused.
TickOnlyRun == draws = AllKeys /\ budget["down"] = 1 /\ budget["rotate"] = 1

TicksSoFar == MaxFall - budget["tick"]

\* In s an O piece falls over the empty board.
OFalling(s) ==
  /\ s.board = createEmptyBoard
  /\ s.currentBlock.tetromino = TETROMINOES["O"]
  /\ ~s.gameOver

\* The board with nothing but an O piece locked at the bottom.
OAtBottom ==
  [r \in 1..20 |-> [c \in 1..10 |->
     IF r \in {19, 20} /\ c \in {5, 6} THEN "yellow" ELSE Null]]

\* C11 as the code has it: from an empty board with an O piece spawned at
\* y = 0, 18 consecutive ticks move the piece from y = 0 to y = 18 without
\* locking it, and the next tick (the 19th) locks it into the bottom of the
\* board.
C11_ScenarioA ==
  TickOnlyRun =>
    /\ OFalling(state) =>
         /\ state.currentBlock.y = TicksSoFar
         /\ state.currentBlock.x = 4
         /\ TicksSoFar <= 18
    /\ (lastAction = "tick" /\ OFalling(prev) /\ TicksSoFar <= 18) =>
         /\ OFalling(state)
         /\ state.currentBlock.y = prev.currentBlock.y + 1
    /\ (lastAction = "tick" /\ OFalling(prev) /\ TicksSoFar = 19) =>
         /\ state.board = OAtBottom
         /\ prev.currentBlock.y = 18

\* The 19th tick has locked the O piece.
C11_Witness ==
  /\ TickOnlyRun
  /\ lastAction = "tick"
  /\ OFalling(prev)
  /\ TicksSoFar = 19
  /\ state.board = OAtBottom

\* C11 as claimed: 19 consecutive ticks move the O piece to y = 18 without
\* locking it.
C11_AsClaimed ==
  (TickOnlyRun /\ lastAction = "tick" /\ OFalling(prev) /\ TicksSoFar = 19) =>
    /\ OFalling(state)
    /\ state.currentBlock.y = 18

\* The board that holds nothing but the block.
BlockAlone(block) ==
  LET cells == OccupiedCells(block)
  IN  [r \in 1..20 |-> [c \in 1..10 |->
         IF <<c - 1, r - 1>> \in cells THEN block.tetromino.color ELSE Null]]

\* The rows of a shape matrix that hold an occupied cell.
OccupiedRows(shape) ==
  { i \in 1..Len(shape) : \E j \in 1..Len(shape[i]) : shape[i][j] # 0 }

\* In s the T piece, as the catalog has it, is at y = 0 over the empty board.
TAtTop(s) ==
  /\ s.board = createEmptyBoard
  /\ s.currentBlock.tetromino = TETROMINOES["T"]
  /\ s.currentBlock.y = 0
  /\ ~s.gameOver

\* C12 as the code has it: a single drop applied to a T piece in its catalog
\* orientation at y = 0 on an empty board locks the piece at y = 18, that is
\* H less the number of occupied rows of the T matrix (2 of its 3 rows), with
\* the lowest occupied row of the shape at board row H - 1.
C12_ScenarioD ==
  (lastAction = "drop" /\ TAtTop(prev)) =>
    LET shape == prev.currentBlock.tetromino.shape
        restY == GRID_HEIGHT - Cardinality(OccupiedRows(shape))
        lowest == CHOOSE i \in OccupiedRows(shape) :
                    \A k \in OccupiedRows(shape) : k <= i
    IN  /\ restY = 18
        /\ state.board = BlockAlone([prev.currentBlock EXCEPT !.y = restY])
        /\ restY + (lowest - 1) = GRID_HEIGHT - 1

\* A T piece has been dropped from the top of the empty board.
C12_Witness ==
  /\ lastAction = "drop"
  /\ TAtTop(prev)
  /\ state.board[20][4] = "purple"
  /\ state.board[19][5] = "purple"

\* C12 as claimed: the drop locks the T piece at y = H - shapeHeight, with
\* shapeHeight the number of rows of the T matrix.
C12_AsClaimed ==
  (lastAction = "drop" /\ TAtTop(prev)) =>
    LET shapeHeight == Len(prev.currentBlock.tetromino.shape)
    IN  state.board =
          BlockAlone([prev.currentBlock EXCEPT !.y = GRID_HEIGHT - shapeHeight])

\* The columns the bottom row of a board leaves empty.
Gap(board) == { c \in 0..9 : board[20][c + 1] = Null }

\* The columns the horizontal I piece of s covers.
IColumns(s) == s.currentBlock.x..(s.currentBlock.x + 3)

EmptyRow == [c \in 1..10 |-> Null]

\* C13 as the code has it: on a board whose bottom row is filled in every
\* cell except four adjacent cells and whose other rows are empty, dropping
\* the horizontal I piece over those four cells completes the row: the score
\* grows by exactly 100, the bottom row is removed and one empty row is
\* prepended at the top.  When the gap is one cell (or any gap the piece does
\* not fill exactly), the drop clears nothing: the score is unchanged, the
\* bottom row keeps its landed cells and an empty cell, and over a one-cell
\* gap the piece comes to rest on row H-2.
C13_ScenarioB ==
  pc = "done" =>
    IF Gap(arg.board) = IColumns(arg)
    THEN /\ ret.score = arg.score + 100
         /\ ret.board[1] = EmptyRow
         /\ \A r \in 2..20 : ret.board[r] = arg.board[r - 1]
    ELSE /\ ret.score = arg.score
         /\ Gap(ret.board) # {}
         /\ \A c \in 1..10 : arg.board[20][c] # Null => ret.board[20][c] = arg.board[20][c]
         /\ Cardinality(Gap(arg.board)) = 1 =>
              /\ \A c \in 0..9 : ret.board[19][c + 1] # Null <=> c \in IColumns(arg)
              /\ \A r \in 1..18 : ret.board[r] = EmptyRow

\* The horizontal I piece has been dropped into a gap of its own width.
C13_Witness ==
  /\ pc = "done"
  /\ Gap(arg.board) = IColumns(arg)
  /\ ret.score = arg.score + 100
  /\ ret.board = createEmptyBoard

\* C13 as claimed: with one cell of the bottom row empty, dropping the
\* horizontal I piece completes the row.
C13_AsClaimed ==
  (pc = "done" /\ Cardinality(Gap(arg.board)) = 1) =>
    /\ ret.score = arg.score + 100
    /\ ret.board[1] = EmptyRow
    /\ \A r \in 2..20 : ret.board[r] = arg.board[r - 1]

\* C14: Stream cancellation: the subscriber receives every state the fold
\* produces up to and including the first state with gameOver = true and
\* nothing afterwards; no tick or input arriving after that state is
\* processed or rendered, so at most one gameOver state is ever emitted.
C14_StreamCancellation ==
  /\ lastAction # "none" => rendered.last = state
  /\ rendered.gameOvers = (IF state.gameOver THEN 1 ELSE 0)
  /\ subscribed <=> ~state.gameOver
  /\ late > 0 =>
       /\ ~subscribed
       /\ state.gameOver
       /\ rendered.last = state
       /\ rendered.gameOvers = 1

\* A tick or a key press has arrived after the gameOver state was rendered.
C14_Witness ==
  /\ ~subscribed
  /\ late > 0
  /\ rendered.last = state
  /\ rendered.gameOvers = 1

\* C15: rotate is an exact 4-cycle: for every catalog shape, and for any
\* rectangular 0/1 matrix M, four applications of rotate give M back cell for
\* cell, where one application maps matrix[i][j] to rotated[j][N-1-i], N the
\* number of rows of the matrix.
C15_RotateFourCycle ==
  /\ ret.turns = 1 => IsClockwise(arg, ret.matrix)
  /\ ret.turns = 4 => ret.matrix = arg

\* Four turns of the L shape, which no smaller number of turns restores.
C15_Witness ==
  /\ arg = TETROMINOES["L"].shape
  /\ ret.turns = 4
  /\ ret.matrix = arg

\* A cell <<column, row>> outside [0,10) x [0,20).
OutOfBounds(cell) == cell[1] \notin 0..9 \/ cell[2] \notin 0..19

\* The matrix cells of a block that are empty, mapped to the board.
EmptyCells(block) ==
  LET shape == block.tetromino.shape
      empty == { rc \in (1..Len(shape)) \X (1..Len(shape[1])) :
                   shape[rc[1]][rc[2]] = 0 }
  IN  { <<block.x + (rc[2] - 1), block.y + (rc[1] - 1)>> : rc \in empty }

\* C16: for every board B, shape T and position (x, y),
\* canPlaceTetromino(B, T, x, y) is false exactly when some occupied cell of
\* T maps through (x+col, y+row) outside [0,10) x [0,20) or onto an occupied
\* board cell, and true otherwise; empty shape cells never cause rejection,
\* even when their mapped coordinate is out of bounds.
C16_CanPlace ==
  (pc = "done" /\ ret.fn = "canPlaceTetromino") =>
    (ret.value = FALSE <=>
       \E cell \in OccupiedCells(arg.block) :
         \/ OutOfBounds(cell)
         \/ arg.board[cell[2] + 1][cell[1] + 1] # Null)

\* A piece accepted although an empty cell of its matrix is off the board.
C16_Witness ==
  /\ pc = "done"
  /\ ret.fn = "canPlaceTetromino"
  /\ ret.value = TRUE
  /\ \E cell \in EmptyCells(arg.block) : OutOfBounds(cell)

RECURSIVE SoftFall(_)
SoftFall(s) ==
  IF Locks(s, "down")
  THEN s
  ELSE SoftFall(updateState(s, "down", s.nextTetromino))

\* C18: hard drop is equivalent to soft-dropping until lock: from every
\* reachable active state, one drop yields the same board, score, gameOver
\* flag and current block as applying down up to and including the first down
\* that locks the piece, given the same preview draw; the piece is locked at
\* the first row y' >= y from which (x, y'+1) is not placeable, and the drop
\* is one transition, with no state emitted in between.
C18_DropIsSoftDrop ==
  (lastAction = "drop" /\ ~prev.gameOver) =>
    LET resting == SoftFall(prev)
    IN  /\ resting.currentBlock.y = RestingY(prev.board, prev.currentBlock)
        /\ state = updateState(resting, "down", state.nextTetromino)
        /\ rendered.last = state

\* A drop over landed blocks that takes the piece down more than one row.
C18_Witness ==
  /\ lastAction = "drop"
  /\ ~prev.gameOver
  /\ prev.board # createEmptyBoard
  /\ RestingY(prev.board, prev.currentBlock) > prev.currentBlock.y + 1

\* C19: in every state reachable from the initial state, the gameOver state
\* included, the board contains no completely filled row: every row has at
\* least one empty cell, because every lock clears all full rows before the
\* state is produced.
C19_NoFullRow ==
  pc = "game" =>
    \A r \in 1..20 : \E c \in 1..10 : state.board[r][c] = Null

\* A lock has just filled a row and left landed cells in another.
C19_Witness ==
  /\ LastLocked
  /\ FullRowsWith(prev.board, Locked(prev, lastAction)) # {}
  /\ state.board # createEmptyBoard
  /\ \A r \in 1..20 : \E c \in 1..10 : state.board[r][c] = Null

\* The columns no centered spawn reaches: 0..2 and 7..9.
OuterColumns == {1, 2, 3, 8, 9, 10}

\* C20: with no player input the game always ends: from the initial state,
\* whatever pieces are drawn, a stream of tick actions alone eventually
\* reaches a state with gameOver = true, and along that run no row is ever
\* cleared (the score stays 0), since centered spawns never occupy the outer
\* columns.
C20_IdleGameEnds ==
  /\ <>(state.gameOver)
  /\ [](state.score = 0)
  /\ [](\A r \in 1..20 : \A c \in OuterColumns : state.board[r][c] = Null)

\* The idle game has ended on a tick, with no row cleared.
C20_Witness ==
  /\ state.gameOver
  /\ lastAction = "tick"
  /\ budget["tick"] > 0
  /\ state.score = 0
  /\ \E r \in 1..20 : state.board[r] # [c \in 1..10 |-> Null]

====
